---- MODULE Spec2Model ----
(***************************************************************************)
(* Natours: the client-side Checkout Initiator (public/js/stripe.js), the  *)
(* HTTP Edge Pipeline (app.js) and the Process Bootstrap (server.js).      *)
(* The three components share no state; each has its own specification     *)
(* (SpecClient, SpecEdge, SpecBoot) over the variables it owns.            *)
(***************************************************************************)
EXTENDS Integers, Sequences, FiniteSets, TLC

VARIABLES
    req,              \* Edge Pipeline: the request travelling through the stack
    hits,             \* Edge Pipeline: the rate limiter's count for the client
    nodeEnv,          \* Edge Pipeline: process.env.NODE_ENV
    calls,            \* Checkout Initiator: one record per bookTour invocation
    pc,               \* Bootstrap: index of the next top-level statement of server.js
    handlers,         \* Bootstrap: process events that have a listener installed
    db,               \* Bootstrap: state of the mongoose.connect promise
    server,           \* Bootstrap: state of the http listener
    listenPending,    \* Bootstrap: the app.listen callback has not run yet
    connections,      \* Bootstrap: requests in flight on the listener
    closeCallbacks,   \* Bootstrap: callbacks registered by server.close, in order
    closePending,     \* Bootstrap: a 'close' emission is scheduled
    logged,           \* Bootstrap: messages written by console.log
    rejections,       \* Bootstrap: unhandled rejections delivered so far
    sigterms,         \* Bootstrap: SIGTERM signals delivered so far
    exitCode,         \* Bootstrap: the process exit code
    exitBy            \* Bootstrap: "none" while the process runs, else who ended it

\* ------------------------------------------------------------------------
\* Bounds
\* ------------------------------------------------------------------------
\* number of bookTour invocations that may be in flight on one page
MaxCalls == 2
\* requests that may be in flight on the listener at once
MaxConns == 2
\* unhandled rejections other than the database connection's
MaxRejections == 2
\* SIGTERM signals delivered to the process
MaxSigterms == 2

varsClient == <<calls>>
varsBoot ==
    <<pc, handlers, db, server, listenPending, connections, closeCallbacks,
      closePending, logged, rejections, sigterms, exitCode, exitBy>>
varsEdge == <<req, hits, nodeEnv>>
vars == <<varsClient, varsBoot, varsEdge>>
ClientOnly == UNCHANGED <<varsBoot, varsEdge>>
BootOnly == UNCHANGED <<varsClient, varsEdge>>
EdgeOnly == UNCHANGED <<varsClient, varsBoot>>

\* ------------------------------------------------------------------------
\* Checkout Initiator  (src/public/js/stripe.js)
\* ------------------------------------------------------------------------
Undefined == "undefined"
TourIds == {"abc123", "t2"}
SessionIds == {"sess_1", "sess_2"}
CallIds == 1..MaxCalls

\* What the awaited axios call can resolve with, as far as bookTour reads it:
\* session.data.session is an object or undefined, and its id a string or
\* undefined.
Responses ==
    {[session |-> "missing", id |-> Undefined]}
        \cup {[session |-> "present", id |-> i] : i \in SessionIds \cup {Undefined}}

NoResponse == [session |-> "none", id |-> Undefined]

\* `/api/v1/bookings/checkout-session/${tourId}`
CheckoutUrl(tourId) == <<"/api/v1/bookings/checkout-session/", tourId>>

\* session.data.session.id throws a TypeError when session.data.session is
\* undefined; otherwise it evaluates to the id (possibly undefined).
ReadThrows(resp) == resp.session = "missing"

SessionIdArg_WrongField(resp) == Undefined
SessionIdArg(resp) == resp.id

\* the catch block: console.log(err); showAlert('error', err)
CatchBlock(c, err) ==
    [c EXCEPT !.logs = Append(@, err),
              !.alerts = Append(@, <<"error", err>>),
              !.pc = "done",
              !.result = "resolved"]

NewCall ==
    [pc |-> "idle", tourId |-> Undefined, fetches |-> <<>>, fetch |-> "none",
     response |-> NoResponse, redirects |-> <<>>, redirect |-> "none",
     alerts |-> <<>>, logs |-> <<>>, result |-> "none"]

InitClient == calls = [c \in CallIds |-> NewCall]

\* bookTour(tourId) up to the first await: the axios request is issued.
BookTour(c, tourId) ==
    /\ calls[c].pc = "idle"
    /\ calls' = [calls EXCEPT ![c] =
                    [@ EXCEPT !.pc = "awaitFetch",
                              !.tourId = tourId,
                              !.fetches = Append(@, CheckoutUrl(tourId)),
                              !.fetch = "pending",
                              !.result = "pending"]]
    /\ ClientOnly

\* the axios promise resolves; the function resumes, reads
\* session.data.session.id and calls stripe.redirectToCheckout.
FetchResolve(c, resp) ==
    /\ calls[c].pc = "awaitFetch"
    /\ LET got == [calls[c] EXCEPT !.fetch = "resolved", !.response = resp]
       IN calls' = [calls EXCEPT ![c] =
                       IF ReadThrows(resp)
                       THEN CatchBlock(got, "TypeError")
                       ELSE [got EXCEPT !.pc = "awaitRedirect",
                                        !.redirects = Append(@, SessionIdArg(resp)),
                                        !.redirect = "pending"]]
    /\ ClientOnly

\* the axios promise rejects (network error, non-2xx status).
FetchReject(c) ==
    /\ calls[c].pc = "awaitFetch"
    /\ calls' = [calls EXCEPT ![c] =
                    CatchBlock([@ EXCEPT !.fetch = "rejected"], "AxiosError")]
    /\ ClientOnly

\* stripe.redirectToCheckout is the payment processor's library: the page is
\* navigated away (the promise never settles), or the promise resolves with
\* an error object that bookTour ignores, or the call throws / rejects.
RedirectNavigates(c) ==
    /\ calls[c].pc = "awaitRedirect"
    /\ calls' = [calls EXCEPT ![c] = [@ EXCEPT !.pc = "gone", !.redirect = "navigated"]]
    /\ ClientOnly

RedirectResolves(c) ==
    /\ calls[c].pc = "awaitRedirect"
    /\ calls' = [calls EXCEPT ![c] =
                    [@ EXCEPT !.pc = "done", !.redirect = "resolved", !.result = "resolved"]]
    /\ ClientOnly

RedirectRejects(c) ==
    /\ calls[c].pc = "awaitRedirect"
    /\ calls' = [calls EXCEPT ![c] =
                    CatchBlock([@ EXCEPT !.redirect = "rejected"], "StripeError")]
    /\ ClientOnly

NextClient ==
    \/ \E c \in CallIds, t \in TourIds : BookTour(c, t)
    \/ \E c \in CallIds, r \in Responses : FetchResolve(c, r)
    \/ \E c \in CallIds : FetchReject(c)
    \/ \E c \in CallIds : RedirectNavigates(c)
    \/ \E c \in CallIds : RedirectResolves(c)
    \/ \E c \in CallIds : RedirectRejects(c)


\* ------------------------------------------------------------------------
\* Process Bootstrap  (src/server.js)
\* ------------------------------------------------------------------------
\* The top-level statements of server.js, in source order.  They run
\* synchronously: no promise callback, signal or socket event is delivered
\* before the last of them has run.
StartupSteps_HandlerAfterApp ==
    <<"requireLibs", "dotenvConfig", "requireApp", "onUncaughtException", "DB",
      "mongooseConnect", "appListen", "onUnhandledRejection", "onSIGTERM">>
StartupSteps ==
    <<"requireLibs", "onUncaughtException", "dotenvConfig", "requireApp", "DB",
      "mongooseConnect", "appListen", "onUnhandledRejection", "onSIGTERM">>

AtStep(name) ==
    /\ exitBy = "none"
    /\ pc <= Len(StartupSteps)
    /\ StartupSteps[pc] = name
Running == exitBy = "none" /\ pc > Len(StartupSteps)
\* The 'close' emission is scheduled with process.nextTick, which runs before
\* the event loop delivers anything else.
EventLoopTurn == Running /\ ~closePending

\* statements whose evaluation can throw (a module that fails to load, an
\* undefined process.env.DATABASE, a bad connection string, a bad port)
Throwing == {"requireLibs", "dotenvConfig", "requireApp", "DB", "mongooseConnect", "appListen"}

InitBoot ==
    /\ pc = 1
    /\ handlers = {}
    /\ db = "none"
    /\ server = "none"
    /\ listenPending = FALSE
    /\ connections = 0
    /\ closeCallbacks = <<>>
    /\ closePending = FALSE
    /\ logged = {}
    /\ rejections = 0
    /\ sigterms = 0
    /\ exitCode = 0
    /\ exitBy = "none"

\* process.exit(code) called by `who`
Exit(code, who) == exitCode' = code /\ exitBy' = who

\* server.close(cb): the callback waits for the 'close' event, the listening
\* handle is released, and 'close' is scheduled if no connection is left.
ServerClose(cb) ==
    /\ closeCallbacks' = Append(closeCallbacks, cb)
    /\ server' = IF server = "listening" THEN "closing" ELSE server
    /\ closePending' = (closePending \/ connections = 0)

\* process.on('uncaughtException', ...): log, process.exit(1)
UncaughtExceptionHandler ==
    /\ logged' = logged \cup {"uncaughtException"}
    /\ Exit(1, "uncaughtException")
    /\ UNCHANGED <<server, closeCallbacks, closePending>>

\* an exception nobody catches: the installed listener, else node's default
\* (print the stack, exit with code 1)
Uncaught ==
    IF "uncaughtException" \in handlers
    THEN UncaughtExceptionHandler
    ELSE /\ Exit(1, "default")
         /\ UNCHANGED <<logged, server, closeCallbacks, closePending>>

\* process.on('unhandledRejection', ...): log, server.close(() => process.exit(1))
UnhandledRejectionHandler_ExitsAtOnce ==
    /\ logged' = logged \cup {"UNHANDLER REJECTION"}
    /\ Exit(1, "unhandledRejection")
    /\ UNCHANGED <<server, closeCallbacks, closePending>>
UnhandledRejectionHandler ==
    /\ logged' = logged \cup {"UNHANDLER REJECTION"}
    /\ ServerClose("exit1")
    /\ UNCHANGED <<exitCode, exitBy>>

\* process.on('SIGTERM', ...): log, server.close(() => console.log(...))
SigtermHandler_LogsAtOnce ==
    /\ logged' = logged \cup {"SIGTERM RECEIVED", "Process terminated!"}
    /\ ServerClose("none")
    /\ UNCHANGED <<exitCode, exitBy>>
SigtermHandler ==
    /\ logged' = logged \cup {"SIGTERM RECEIVED"}
    /\ ServerClose("log")
    /\ UNCHANGED <<exitCode, exitBy>>

\* The callbacks of one 'close' emission run in registration order until one
\* of them calls process.exit.
RECURSIVE FirstExit(_)
FirstExit(cbs) ==
    IF cbs = <<>> THEN 0
    ELSE IF Head(cbs) = "exit1" THEN 1
    ELSE LET k == FirstExit(Tail(cbs)) IN IF k = 0 THEN 0 ELSE k + 1

CallbacksRun(cbs) ==
    IF FirstExit(cbs) = 0 THEN cbs ELSE SubSeq(cbs, 1, FirstExit(cbs))

\* ---- the top-level statements
Advance == pc' = pc + 1

RequireLibs ==
    /\ AtStep("requireLibs")
    /\ Advance
    /\ UNCHANGED <<handlers, db, server, listenPending, connections, closeCallbacks,
                   closePending, logged, rejections, sigterms, exitCode, exitBy>>
    /\ BootOnly

OnUncaughtException ==
    /\ AtStep("onUncaughtException")
    /\ handlers' = handlers \cup {"uncaughtException"}
    /\ Advance
    /\ UNCHANGED <<db, server, listenPending, connections, closeCallbacks,
                   closePending, logged, rejections, sigterms, exitCode, exitBy>>
    /\ BootOnly

DotenvConfig ==
    /\ AtStep("dotenvConfig")
    /\ Advance
    /\ UNCHANGED <<handlers, db, server, listenPending, connections, closeCallbacks,
                   closePending, logged, rejections, sigterms, exitCode, exitBy>>
    /\ BootOnly

RequireApp ==
    /\ AtStep("requireApp")
    /\ Advance
    /\ UNCHANGED <<handlers, db, server, listenPending, connections, closeCallbacks,
                   closePending, logged, rejections, sigterms, exitCode, exitBy>>
    /\ BootOnly

BuildDB ==
    /\ AtStep("DB")
    /\ Advance
    /\ UNCHANGED <<handlers, db, server, listenPending, connections, closeCallbacks,
                   closePending, logged, rejections, sigterms, exitCode, exitBy>>
    /\ BootOnly

\* mongoose.connect(...).then(log): the promise is created and not awaited
MongooseConnect ==
    /\ AtStep("mongooseConnect")
    /\ db' = "pending"
    /\ Advance
    /\ UNCHANGED <<handlers, server, listenPending, connections, closeCallbacks,
                   closePending, logged, rejections, sigterms, exitCode, exitBy>>
    /\ BootOnly

\* app.listen(port, cb): the listening handle is bound
AppListen ==
    /\ AtStep("appListen")
    /\ server' = "listening"
    /\ listenPending' = TRUE
    /\ Advance
    /\ UNCHANGED <<handlers, db, connections, closeCallbacks,
                   closePending, logged, rejections, sigterms, exitCode, exitBy>>
    /\ BootOnly

OnUnhandledRejection ==
    /\ AtStep("onUnhandledRejection")
    /\ handlers' = handlers \cup {"unhandledRejection"}
    /\ Advance
    /\ UNCHANGED <<db, server, listenPending, connections, closeCallbacks,
                   closePending, logged, rejections, sigterms, exitCode, exitBy>>
    /\ BootOnly

OnSIGTERM ==
    /\ AtStep("onSIGTERM")
    /\ handlers' = handlers \cup {"SIGTERM"}
    /\ Advance
    /\ UNCHANGED <<db, server, listenPending, connections, closeCallbacks,
                   closePending, logged, rejections, sigterms, exitCode, exitBy>>
    /\ BootOnly

\* a top-level statement throws
StartupThrows ==
    /\ exitBy = "none"
    /\ pc <= Len(StartupSteps)
    /\ StartupSteps[pc] \in Throwing
    /\ Uncaught
    /\ UNCHANGED <<pc, handlers, db, listenPending, connections, rejections, sigterms>>
    /\ BootOnly

\* ---- the event loop
\* the callback of app.listen
ListenCallback ==
    /\ EventLoopTurn
    /\ listenPending
    /\ listenPending' = FALSE
    /\ logged' = logged \cup {"App running"}
    /\ UNCHANGED <<pc, handlers, db, server, connections, closeCallbacks,
                   closePending, rejections, sigterms, exitCode, exitBy>>
    /\ BootOnly

\* the connection promise resolves: .then(() => console.log(...))
DbConnected ==
    /\ EventLoopTurn
    /\ db = "pending"
    /\ db' = "connected"
    /\ logged' = logged \cup {"DB connection success"}
    /\ UNCHANGED <<pc, handlers, server, listenPending, connections, closeCallbacks,
                   closePending, rejections, sigterms, exitCode, exitBy>>
    /\ BootOnly

\* delivery of an unhandled rejection
Rejected ==
    IF "unhandledRejection" \in handlers
    THEN UnhandledRejectionHandler
    ELSE UNCHANGED <<logged, server, closeCallbacks, closePending, exitCode, exitBy>>

\* the connection promise rejects; the promise returned by .then has no
\* rejection handler
DbRejected ==
    /\ EventLoopTurn
    /\ db = "pending"
    /\ db' = "failed"
    /\ rejections' = rejections + 1
    /\ Rejected
    /\ UNCHANGED <<pc, handlers, listenPending, connections, sigterms>>
    /\ BootOnly

\* any other promise of the process rejects with nobody handling it
OtherRejection ==
    /\ EventLoopTurn
    /\ rejections < MaxRejections
    /\ rejections' = rejections + 1
    /\ Rejected
    /\ UNCHANGED <<pc, handlers, db, listenPending, connections, sigterms>>
    /\ BootOnly

\* the supervisor sends SIGTERM
Sigterm ==
    /\ EventLoopTurn
    /\ sigterms < MaxSigterms
    /\ sigterms' = sigterms + 1
    /\ IF "SIGTERM" \in handlers
       THEN SigtermHandler
       ELSE /\ Exit(143, "signal")
            /\ UNCHANGED <<logged, server, closeCallbacks, closePending>>
    /\ UNCHANGED <<pc, handlers, db, listenPending, connections, rejections>>
    /\ BootOnly

\* an exception escapes a callback while the event loop runs
RuntimeThrows ==
    /\ EventLoopTurn
    /\ Uncaught
    /\ UNCHANGED <<pc, handlers, db, listenPending, connections, rejections, sigterms>>
    /\ BootOnly

\* the listener accepts a request
Accept ==
    /\ EventLoopTurn
    /\ server = "listening"
    /\ connections < MaxConns
    /\ connections' = connections + 1
    /\ UNCHANGED <<pc, handlers, db, server, listenPending, closeCallbacks,
                   closePending, logged, rejections, sigterms, exitCode, exitBy>>
    /\ BootOnly

\* a request in flight completes; the last one of a closed listener
\* schedules 'close'
ConnectionEnds ==
    /\ EventLoopTurn
    /\ connections > 0
    /\ connections' = connections - 1
    /\ closePending' = (closePending \/ (server # "listening" /\ connections = 1))
    /\ UNCHANGED <<pc, handlers, db, server, listenPending, closeCallbacks,
                   logged, rejections, sigterms, exitCode, exitBy>>
    /\ BootOnly

\* 'close' is emitted: the registered callbacks run
EmitClose ==
    /\ Running
    /\ closePending
    /\ connections = 0
    /\ closePending' = FALSE
    /\ server' = "closed"
    /\ closeCallbacks' = <<>>
    /\ LET ran == CallbacksRun(closeCallbacks)
       IN /\ logged' = logged \cup
                 (IF \E i \in 1..Len(ran) : ran[i] = "log"
                  THEN {"Process terminated!"} ELSE {})
          /\ IF FirstExit(closeCallbacks) # 0
             THEN Exit(1, "unhandledRejection")
             ELSE UNCHANGED <<exitCode, exitBy>>
    /\ UNCHANGED <<pc, handlers, db, listenPending, connections, rejections, sigterms>>
    /\ BootOnly

NextBoot ==
    \/ RequireLibs
    \/ OnUncaughtException
    \/ DotenvConfig
    \/ RequireApp
    \/ BuildDB
    \/ MongooseConnect
    \/ AppListen
    \/ OnUnhandledRejection
    \/ OnSIGTERM
    \/ StartupThrows
    \/ ListenCallback
    \/ DbConnected
    \/ DbRejected
    \/ OtherRejection
    \/ Sigterm
    \/ RuntimeThrows
    \/ Accept
    \/ ConnectionEnds
    \/ EmitClose

\* ------------------------------------------------------------------------
\* HTTP Edge Pipeline  (src/app.js)
\* ------------------------------------------------------------------------
\* max of rateLimit({...})
LimiterMax == 100

IsPrefix(p, q) == Len(p) <= Len(q) /\ SubSeq(q, 1, Len(p)) = p

\* Paths are sequences of segments: <<>> is "/".
ApiUsers == <<"api", "v1", "users">>
ApiTours == <<"api", "v1", "tours">>
ApiReviews == <<"api", "v1", "reviews">>
ApiBookings == <<"api", "v1", "bookings">>
CheckoutSessionPath == ApiBookings \o <<"checkout-session", "abc123">>
WebhookPath == <<"webhook-checkout">>
Paths ==
    {<<>>, ApiUsers, ApiTours, ApiReviews, CheckoutSessionPath, WebhookPath,
     <<"api", "nope">>, <<"does-not-exist">>, <<"img", "logo.png">>}
\* files present under public/
StaticFiles == {<<"img", "logo.png">>}

\* The requests a client can send: a GET or OPTIONS without a body, or a
\* POST with a json or urlencoded body that is well-formed, malformed, or
\* larger than 10kb / 100kb.
Requests ==
    [method : {"GET", "OPTIONS"}, path : Paths, ctype : {"none"}, payload : {"none"}]
        \cup [method : {"POST"}, path : Paths, ctype : {"json", "urlencoded"},
              payload : {"valid", "malformed", "over10kb", "over100kb"}]

NoError == [status |-> 0, message |-> <<>>]
NoResponseYet == [by |-> "none", status |-> 0]

\* new AppError(message, statusCode)
AppError(message, statusCode) == [status |-> statusCode, message |-> message]

\* The layers of the application, in registration order.
StackBeforeLogging == <<"cors", "corsPreflight", "static", "helmet">>
StackAfterLogging_WebhookAfterJson ==
    <<"limiter", "json", "rawParser", "webhookCheckout", "urlencoded", "cookieParser",
      "mongoSanitize", "xss", "hpp", "compression", "requestTime",
      "viewRouter", "usersRouter", "toursRouter", "reviewRouter", "bookingRouter",
      "catchAll", "globalErrorHandler">>
StackAfterLogging_LimiterAfterParsers ==
    <<"rawParser", "webhookCheckout", "json", "urlencoded", "limiter", "cookieParser",
      "mongoSanitize", "xss", "hpp", "compression", "requestTime",
      "viewRouter", "usersRouter", "toursRouter", "reviewRouter", "bookingRouter",
      "catchAll", "globalErrorHandler">>
StackAfterLogging_ErrorHandlerBeforeCatchAll ==
    <<"limiter", "rawParser", "webhookCheckout", "json", "urlencoded", "cookieParser",
      "mongoSanitize", "xss", "hpp", "compression", "requestTime",
      "viewRouter", "usersRouter", "toursRouter", "reviewRouter", "bookingRouter",
      "globalErrorHandler", "catchAll">>
StackAfterLogging_RequestTimeAfterRouters ==
    <<"limiter", "rawParser", "webhookCheckout", "json", "urlencoded", "cookieParser",
      "mongoSanitize", "xss", "hpp", "compression",
      "viewRouter", "usersRouter", "toursRouter", "reviewRouter", "bookingRouter",
      "requestTime", "catchAll", "globalErrorHandler">>
StackAfterLogging ==
    <<"limiter", "rawParser", "webhookCheckout", "json", "urlencoded", "cookieParser",
      "mongoSanitize", "xss", "hpp", "compression", "requestTime",
      "viewRouter", "usersRouter", "toursRouter", "reviewRouter", "bookingRouter",
      "catchAll", "globalErrorHandler">>

\* if (process.env.NODE_ENV === 'development') app.use(morgan('dev'))
Stack ==
    StackBeforeLogging
        \o (IF nodeEnv = "development" THEN <<"morgan">> ELSE <<>>)
        \o StackAfterLogging

\* Where and how each layer is mounted: app.use(fn) matches every path,
\* app.use(path, fn) every path under `path`, app.post / app.options /
\* app.all one method (or all) on the exact path or on '*'.  A function of
\* four arguments is an error handler.
Mount(name) ==
    CASE name = "limiter" -> <<"api">>
      [] name \in {"rawParser", "webhookCheckout"} -> WebhookPath
      [] name = "usersRouter" -> ApiUsers
      [] name = "toursRouter" -> ApiTours
      [] name = "reviewRouter" -> ApiReviews
      [] name = "bookingRouter" -> ApiBookings
      [] OTHER -> <<>>
MethodOf(name) ==
    CASE name \in {"rawParser", "webhookCheckout"} -> "POST"
      [] name = "corsPreflight" -> "OPTIONS"
      [] OTHER -> "ANY"
IsExact(name) == name \in {"rawParser", "webhookCheckout"}
IsErrorHandler(name) == name = "globalErrorHandler"

\* the router's match of a layer against a request; after next(err) only
\* error handlers match
Matches(name, r) ==
    /\ IsErrorHandler(name) = (r.err # NoError)
    /\ MethodOf(name) \in {"ANY", r.method}
    /\ IF IsExact(name) THEN r.path = Mount(name) ELSE IsPrefix(Mount(name), r.path)

NextIndex(r, from) ==
    LET later == {j \in from..Len(Stack) : Matches(Stack[j], r)}
    IN IF later = {} THEN Len(Stack) + 1
       ELSE CHOOSE j \in later : \A k \in later : j <= k

\* next() / next(err): control moves to the next layer that matches; when
\* none is left the framework's final handler answers (404, or the error's
\* status).
CallNext(r) ==
    LET j == NextIndex(r, r.at + 1)
    IN IF j > Len(Stack)
       THEN [r EXCEPT !.at = j,
                      !.response = [by |-> "finalhandler",
                                    status |-> IF r.err = NoError THEN 404 ELSE r.err.status]]
       ELSE [r EXCEPT !.at = j]

Ran(r, name) == [r EXCEPT !.passed = Append(@, name)]
Respond(r, by, status) == [r EXCEPT !.response = [by |-> by, status |-> status]]
Fail(r, err) == CallNext([r EXCEPT !.err = err])

Idle ==
    [active |-> FALSE, method |-> "none", path |-> <<>>, ctype |-> "none",
     payload |-> "none", at |-> 0, passed |-> <<>>, body |-> "unread",
     bodySeen |-> "none", requestTime |-> FALSE, err |-> NoError,
     response |-> NoResponseYet]

InitEdge ==
    /\ req = Idle
    /\ hits = 0
    /\ nodeEnv \in {"development", "production"}

At(name) ==
    /\ req.active
    /\ req.response = NoResponseYet
    /\ req.at <= Len(Stack)
    /\ Stack[req.at] = name

\* what a layer that only calls next() does to the request
Pass(r, name) == CallNext(Ran(r, name))

\* A request arrives.
Receive(q) ==
    /\ ~req.active
    /\ req' = CallNext([Idle EXCEPT !.active = TRUE, !.method = q.method,
                                    !.path = q.path, !.ctype = q.ctype,
                                    !.payload = q.payload])
    /\ UNCHANGED <<hits, nodeEnv>>
    /\ EdgeOnly

\* cors(): a preflight (OPTIONS) is answered 204 here
Cors ==
    /\ \E name \in {"cors", "corsPreflight"} :
          /\ At(name)
          /\ req' = IF req.method = "OPTIONS"
                    THEN Respond(Ran(req, name), name, 204)
                    ELSE CallNext(Ran(req, name))
    /\ UNCHANGED <<hits, nodeEnv>>
    /\ EdgeOnly

\* express.static: a GET of an existing file is served, anything else falls
\* through
ServeStatic ==
    /\ At("static")
    /\ req' = IF req.method = "GET" /\ req.path \in StaticFiles
              THEN Respond(Ran(req, "static"), "static", 200)
              ELSE CallNext(Ran(req, "static"))
    /\ UNCHANGED <<hits, nodeEnv>>
    /\ EdgeOnly

\* helmet(): sets the security headers
Helmet ==
    /\ At("helmet")
    /\ req' = Pass(req, "helmet")
    /\ UNCHANGED <<hits, nodeEnv>>
    /\ EdgeOnly

\* morgan('dev'): logs the request
Morgan ==
    /\ At("morgan")
    /\ req' = Pass(req, "morgan")
    /\ UNCHANGED <<hits, nodeEnv>>
    /\ EdgeOnly


\* rateLimit: the request is counted; past max the handler answers 429
Limiter ==
    /\ At("limiter")
    /\ hits' = IF hits > LimiterMax THEN hits ELSE hits + 1
    /\ req' = IF hits + 1 > LimiterMax
              THEN Respond(Ran(req, "limiter"), "limiter", 429)
              ELSE CallNext(Ran(req, "limiter"))
    /\ UNCHANGED nodeEnv
    /\ EdgeOnly

\* the limiter's window (windowMs) elapses
WindowReset ==
    /\ hits > 0
    /\ hits' = 0
    /\ UNCHANGED <<req, nodeEnv>>
    /\ EdgeOnly

\* A body parser for content type `type` with size limit `tooLarge`: a body
\* some parser has read already is left alone; req.body defaults to {}; a
\* body of another type is skipped; one over the limit fails with 413, one
\* that does not parse with 400; else req.body becomes `result`.
Parse(r, name, type, tooLarge, strict, result) ==
    LET r1 == Ran(r, name)
    IN IF r1.body \in {"buffer", "object"} THEN CallNext(r1)
       ELSE IF r1.ctype # type THEN CallNext([r1 EXCEPT !.body = "empty"])
       ELSE IF r1.payload \in tooLarge
            THEN Fail([r1 EXCEPT !.body = "empty"], AppError(<<"request entity too large">>, 413))
       ELSE IF strict /\ r1.payload = "malformed"
            THEN Fail([r1 EXCEPT !.body = "empty"], AppError(<<"SyntaxError">>, 400))
       ELSE CallNext([r1 EXCEPT !.body = result])

\* bodyParser.raw({ type: 'application/json' }), limit 100kb by default
RawParser ==
    /\ At("rawParser")
    /\ req' = Parse(req, "rawParser", "json", {"over100kb"}, FALSE, "buffer")
    /\ UNCHANGED <<hits, nodeEnv>>
    /\ EdgeOnly

\* bookingController.webhookCheckout answers the webhook
WebhookCheckout ==
    /\ At("webhookCheckout")
    /\ req' = Respond([Ran(req, "webhookCheckout") EXCEPT !.bodySeen = req.body],
                      "webhookCheckout", 200)
    /\ UNCHANGED <<hits, nodeEnv>>
    /\ EdgeOnly

\* express.json({ limit: '10kb' })
JsonParser ==
    /\ At("json")
    /\ req' = Parse(req, "json", "json", {"over10kb", "over100kb"}, TRUE, "object")
    /\ UNCHANGED <<hits, nodeEnv>>
    /\ EdgeOnly

\* express.urlencoded({ extended: true, limit: '10kb' })
UrlencodedParser ==
    /\ At("urlencoded")
    /\ req' = Parse(req, "urlencoded", "urlencoded", {"over10kb", "over100kb"}, FALSE, "object")
    /\ UNCHANGED <<hits, nodeEnv>>
    /\ EdgeOnly

\* cookieParser(): fills req.cookies
CookieParser ==
    /\ At("cookieParser")
    /\ req' = Pass(req, "cookieParser")
    /\ UNCHANGED <<hits, nodeEnv>>
    /\ EdgeOnly

\* mongoSanitize(): strips $ and . keys from the parsed input
MongoSanitize ==
    /\ At("mongoSanitize")
    /\ req' = Pass(req, "mongoSanitize")
    /\ UNCHANGED <<hits, nodeEnv>>
    /\ EdgeOnly

\* xss(): escapes html in the parsed input
XssClean ==
    /\ At("xss")
    /\ req' = Pass(req, "xss")
    /\ UNCHANGED <<hits, nodeEnv>>
    /\ EdgeOnly

\* hpp({ whitelist }): collapses repeated query parameters
Hpp ==
    /\ At("hpp")
    /\ req' = Pass(req, "hpp")
    /\ UNCHANGED <<hits, nodeEnv>>
    /\ EdgeOnly

\* compression(): wraps the response stream
Compression ==
    /\ At("compression")
    /\ req' = Pass(req, "compression")
    /\ UNCHANGED <<hits, nodeEnv>>
    /\ EdgeOnly


\* req.requestTime = new Date().toISOString(); next()
RequestTime ==
    /\ At("requestTime")
    /\ req' = CallNext([Ran(req, "requestTime") EXCEPT !.requestTime = TRUE])
    /\ UNCHANGED <<hits, nodeEnv>>
    /\ EdgeOnly

Routers == {"viewRouter", "usersRouter", "toursRouter", "reviewRouter", "bookingRouter"}

\* the routes the domain routers define
RouterHandles(router, r) ==
    CASE router = "viewRouter" -> r.path = <<>> /\ r.method \in {"GET", "POST"}
      [] router = "usersRouter" -> r.path = ApiUsers /\ r.method \in {"GET", "POST"}
      [] router = "toursRouter" -> r.path = ApiTours /\ r.method \in {"GET", "POST"}
      [] router = "reviewRouter" -> r.path = ApiReviews /\ r.method \in {"GET", "POST"}
      [] router = "bookingRouter" -> r.path = CheckoutSessionPath /\ r.method = "GET"

\* app.use(prefix, router): the router answers a request it has a route
\* for, and hands on any other
Dispatch(router) ==
    /\ At(router)
    /\ req' = IF RouterHandles(router, req)
              THEN Respond(Ran(req, router), router, 200)
              ELSE CallNext(Ran(req, router))
    /\ UNCHANGED <<hits, nodeEnv>>
    /\ EdgeOnly

\* `Cant't find ${req.originalUrl} on this server!`
NotFoundMessage(url) == <<"Cant't find ", url, " on this server!">>

\* app.all('*', ...): next(new AppError(..., 404))
CatchAll ==
    /\ At("catchAll")
    /\ req' = Fail(Ran(req, "catchAll"), AppError(NotFoundMessage(req.path), 404))
    /\ UNCHANGED <<hits, nodeEnv>>
    /\ EdgeOnly

\* app.use(globalErrorHandler): the error is turned into the response
GlobalErrorHandler ==
    /\ At("globalErrorHandler")
    /\ req' = Respond(Ran(req, "globalErrorHandler"), "globalErrorHandler", req.err.status)
    /\ UNCHANGED <<hits, nodeEnv>>
    /\ EdgeOnly

\* the response has been sent: the request and its context are discarded
Finish ==
    /\ req.active
    /\ req.response # NoResponseYet
    /\ req' = Idle
    /\ UNCHANGED <<hits, nodeEnv>>
    /\ EdgeOnly

NextEdge ==
    \/ \E q \in Requests : Receive(q)
    \/ Cors
    \/ ServeStatic
    \/ Helmet
    \/ Morgan
    \/ Limiter
    \/ WindowReset
    \/ RawParser
    \/ WebhookCheckout
    \/ JsonParser
    \/ UrlencodedParser
    \/ CookieParser
    \/ MongoSanitize
    \/ XssClean
    \/ Hpp
    \/ Compression
    \/ RequestTime
    \/ \E router \in Routers : Dispatch(router)
    \/ CatchAll
    \/ GlobalErrorHandler
    \/ Finish

Init == InitClient /\ InitBoot /\ InitEdge

SpecClient == Init /\ [][NextClient]_vars
SpecBoot == Init /\ [][NextBoot]_vars
\* requests in flight complete, and a scheduled 'close' emission runs
SpecBootFair == SpecBoot /\ WF_vars(ConnectionEnds) /\ WF_vars(EmitClose)
SpecEdge == Init /\ [][NextEdge]_vars

\* ------------------------------------------------------------------------
\* Claims about the Checkout Initiator
\* ------------------------------------------------------------------------
Started(c) == calls[c].pc # "idle"
GotSessionId(c) ==
    calls[c].fetch = "resolved" /\ calls[c].response.session = "present"
        /\ calls[c].response.id # Undefined

\* C1: one call of bookTour issues exactly one fetch, to
\* /api/v1/bookings/checkout-session/<tourId>; when the fetch has returned a
\* session id there is exactly one redirectToCheckout call, with that id as
\* sessionId; no redirect call exists while the fetch is unresolved.
C1_OneFetchThenOneRedirect ==
    \A c \in CallIds :
        /\ Started(c) => calls[c].fetches = <<CheckoutUrl(calls[c].tourId)>>
        /\ ~Started(c) => calls[c].fetches = <<>>
        /\ GotSessionId(c) => calls[c].redirects = <<calls[c].response.id>>
        /\ calls[c].redirects # <<>> => calls[c].fetch = "resolved"
        /\ Len(calls[c].redirects) <= 1

C1_Witness ==
    \E c \in CallIds :
        /\ calls[c].tourId = "abc123"
        /\ calls[c].fetch = "resolved"
        /\ calls[c].response = [session |-> "present", id |-> "sess_1"]
        /\ calls[c].redirects = <<"sess_1">>

FetchFailed(c) ==
    \/ calls[c].fetch = "rejected"
    \/ calls[c].fetch = "resolved" /\ ~GotSessionId(c)

\* C2: if the fetch rejects or returns a response with no session id, no
\* redirect call occurs, exactly one alert of kind error is shown, and
\* bookTour's promise resolves.
C2_FailureAlertsOnce ==
    \A c \in CallIds :
        FetchFailed(c) =>
            /\ calls[c].redirects = <<>>
            /\ Len(calls[c].alerts) = 1
            /\ calls[c].alerts[1][1] = "error"
            /\ calls[c].result = "resolved"

\* ------------------------------------------------------------------------
\* Claims about the Process Bootstrap
\* ------------------------------------------------------------------------
Exited == exitBy # "none"
AcceptingTraffic == Running /\ server = "listening"

\* C5: the listener never accepts requests while the database connection
\* promise is still pending or has failed.
C5_DbBeforeTraffic ==
    (AcceptingTraffic \/ connections > 0) => db = "connected"

C6_Safety ==
    /\ (rejections > 0 /\ ~Exited) =>
          /\ "UNHANDLER REJECTION" \in logged
          /\ server \in {"closing", "closed"}
          /\ \E i \in 1..Len(closeCallbacks) : closeCallbacks[i] = "exit1"
    /\ (rejections > 0 /\ Exited) =>
          /\ exitCode = 1
          /\ "UNHANDLER REJECTION" \in logged
          /\ exitBy \in {"unhandledRejection", "uncaughtException"}
    /\ exitBy = "unhandledRejection" =>
          /\ rejections > 0
          /\ server = "closed"
          /\ connections = 0

StepOf(name) == CHOOSE i \in 1..Len(StartupSteps) : StartupSteps[i] = name

C9_Covered ==
    /\ StepOf("onUncaughtException") < StepOf("dotenvConfig")
    /\ StepOf("onUncaughtException") < StepOf("requireApp")
    /\ pc > StepOf("onUncaughtException") => "uncaughtException" \in handlers
    /\ exitBy = "default" => pc < StepOf("onUncaughtException")
    /\ exitBy = "uncaughtException" =>
          (exitCode = 1 /\ "uncaughtException" \in logged)

C9_NoCleanup ==
    (exitBy = "none" /\ exitBy' = "uncaughtException") =>
        /\ exitCode' = 1
        /\ server' = server
        /\ closeCallbacks' = closeCallbacks
        /\ closePending' = closePending
        /\ connections' = connections

\* C9: an uncaught exception is logged and ends the process at once with
\* code 1, the listener left as it is; the handler is installed before the
\* configuration is loaded and before the app module is required, so every
\* exception thrown by a later startup statement reaches it.
C9_UncaughtExitsAtOnce == []C9_Covered /\ [][C9_NoCleanup]_vars

C9_Witness ==
    /\ exitBy = "uncaughtException"
    /\ exitCode = 1
    /\ server = "listening"
    /\ connections > 0

C9_WitnessStartup ==
    /\ exitBy = "uncaughtException"
    /\ pc = StepOf("requireApp")

\* ------------------------------------------------------------------------
\* Claims about the Edge Pipeline
\* ------------------------------------------------------------------------
Answered == req.active /\ req.response # NoResponseYet
Pos(seq, name) ==
    IF \E i \in 1..Len(seq) : seq[i] = name
    THEN CHOOSE i \in 1..Len(seq) : seq[i] = name /\ \A k \in 1..(i - 1) : seq[k] # name
    ELSE 0
HasRun(name) == Pos(req.passed, name) # 0
Before(a, b) == HasRun(a) /\ HasRun(b) /\ Pos(req.passed, a) < Pos(req.passed, b)
Times(name) == Cardinality({i \in 1..Len(req.passed) : req.passed[i] = name})

GenericParsers == {"json", "urlencoded"}
Sanitizers == {"mongoSanitize", "xss", "hpp"}
BodyParsers == {"rawParser", "json", "urlencoded"}

IsWebhookPost(r) == r.method = "POST" /\ r.path = WebhookPath /\ r.ctype = "json"

\* C3: a POST /webhook-checkout with content-type application/json reaches
\* webhookCheckout with the raw bytes as its body: the raw parser has run,
\* and no generic parser or sanitizer has.
C3_WebhookBodyRaw ==
    /\ (req.active /\ IsWebhookPost(req) /\ HasRun("webhookCheckout")) =>
          /\ req.bodySeen = "buffer"
          /\ Before("rawParser", "webhookCheckout")
          /\ \A n \in GenericParsers \cup Sanitizers : ~HasRun(n)
    /\ (Answered /\ IsWebhookPost(req) /\ req.payload # "over100kb") =>
          req.response.by = "webhookCheckout"

C3_Witness ==
    /\ Answered
    /\ IsWebhookPost(req)
    /\ req.payload = "over10kb"
    /\ req.response.by = "webhookCheckout"
    /\ req.bodySeen = "buffer"

Unmatched(r) ==
    /\ r.active
    /\ \A router \in Routers : ~RouterHandles(router, r)
    /\ ~(r.method = "GET" /\ r.path \in StaticFiles)
    /\ ~(r.method = "POST" /\ r.path = WebhookPath)

EndsInCatchAll ==
    /\ Times("catchAll") = 1
    /\ req.err = AppError(NotFoundMessage(req.path), 404)
    /\ req.response = [by |-> "globalErrorHandler", status |-> 404]

\* C4 as stated: every request that matches no router, static file or the
\* webhook route ends in the catch-all: one AppError 404 "Cant't find <url>
\* on this server!" reaches the error handler, and no other stage answers.
C4_UnmatchedEndsInCatchAll ==
    (Unmatched(req) /\ Answered) => EndsInCatchAll

ParsersAccept(r) ==
    /\ ~(r.ctype = "json" /\ r.payload \in {"malformed", "over10kb", "over100kb"})
    /\ ~(r.ctype = "urlencoded" /\ r.payload \in {"over10kb", "over100kb"})

\* C4 (amended): every request that matches no router, static file or the
\* webhook route, and that is not a preflight (OPTIONS, answered by cors),
\* not turned away by the rate limiter (429) and carries no body that
\* express.json or express.urlencoded rejects (400, 413), ends in the
\* catch-all: one AppError 404 "Cant't find <url> on this server!" reaches
\* the error handler, which answers.
C4_UnmatchedEndsInCatchAllUnlessStopped ==
    (/\ Unmatched(req)
     /\ Answered
     /\ req.method # "OPTIONS"
     /\ req.response.by # "limiter"
     /\ ParsersAccept(req)) => EndsInCatchAll

C4_Witness ==
    /\ Answered
    /\ req.method = "GET"
    /\ req.path = <<"does-not-exist">>
    /\ req.response = [by |-> "globalErrorHandler", status |-> 404]
    /\ req.err.message = <<"Cant't find ", <<"does-not-exist">>, " on this server!">>

LimitedBeforeParsing ==
    \A p \in BodyParsers : HasRun(p) => Before("limiter", p)

\* C8 as stated: no request reaches a body parser without having passed the
\* rate limiter first.
C8_LimiterBeforeAnyParser == req.active => LimitedBeforeParsing

\* C8 (amended): no request whose path is under /api reaches a body parser
\* without having passed the rate limiter first (requests outside /api are
\* not rate limited at all).
C8_LimiterBeforeParserUnderApi ==
    (req.active /\ IsPrefix(<<"api">>, req.path)) => LimitedBeforeParsing

C8_Witness ==
    /\ req.active
    /\ req.path = ApiTours
    /\ req.method = "POST"
    /\ Before("limiter", "json")
    /\ req.body = "object"

InOrder(names) ==
    \A i \in 1..(Len(names) - 1) : Before(names[i], names[i + 1])

DispatchedTo(router) ==
    \/ HasRun(router)
    \/ /\ req.active
       /\ req.response = NoResponseYet
       /\ req.at <= Len(Stack)
       /\ Stack[req.at] = router

\* C10: a request dispatched to a mounted router has passed body parsing,
\* then sanitization (NoSQL, XSS, parameter pollution), then the
\* timestamping stage, in this order, and carries requestTime; no sanitizer
\* runs on a request before the body parsers have.
C10_ParsedSanitizedStampedBeforeRouting ==
    /\ \A router \in Routers :
          (req.active /\ DispatchedTo(router)) =>
              /\ InOrder(<<"json", "urlencoded", "mongoSanitize", "xss", "hpp", "requestTime">>)
              /\ HasRun(router) => Before("requestTime", router)
              /\ req.requestTime
    /\ \A s \in Sanitizers :
          (req.active /\ HasRun(s)) => \A p \in GenericParsers : Before(p, s)

C10_Witness ==
    /\ Answered
    /\ req.response.by = "toursRouter"
    /\ req.method = "POST"
    /\ req.body = "object"
    /\ req.requestTime


====
